---- MODULE Spec2Model ----
(***************************************************************************)
(* Model of .github/scripts/generate_release_notes.py: the release-notes   *)
(* script of tdx.  Text is modelled character by character: a Python str   *)
(* is a sequence of one-character strings, so that split, strip and        *)
(* startswith are computed the way the interpreter computes them.          *)
(***************************************************************************)
EXTENDS Integers, Sequences, FiniteSets, TLC

VARIABLES
    pc,            \* position of main(): the step it is about to run
    env,           \* os.environ (after the optional load_dotenv)
    current_tag,   \* locals of main()
    prev_tag,
    repo,
    api_key,
    model,
    history,       \* the commits git finds in the requested range
    range_spec,    \* the revision range handed to git log
    raw_commits,
    commits,
    git_returncode,\* <<>> before git ran, then <<its exit status>>
    net_request,   \* what was posted to the chat-completions endpoint
    response_content, \* choices[0].message.content of the response, if one came
    gen_error,     \* the exception caught at line 250, if any
    release_notes,
    stdout,        \* one entry per print() to sys.stdout
    stderr,        \* one entry per print(..., file=sys.stderr)
    exit_code,     \* <<>> while running, <<n>> once the process has exited
    git_calls,     \* number of subprocess.run calls made
    net_calls,     \* number of requests.post calls made
    path           \* the positions main() has gone through, oldest first

vars == <<pc, env, current_tag, prev_tag, repo, api_key, model, history, range_spec,
          raw_commits, commits, git_returncode, net_request, response_content, gen_error,
          release_notes, stdout, stderr, exit_code, git_calls, net_calls, path>>

-----------------------------------------------------------------------------
(* Bounds of the model.                                                    *)

\* longest commit range git is asked about
MaxCommits == 2

\* number of text pieces an arbitrary raw blob is put together from
MaxChunks == 6

-----------------------------------------------------------------------------
(* Python values and str methods.                                          *)

\* Python's None; no str equals it (its one element is not a character)
None == <<"<None>">>

\* truth value of an Optional[str]: None and "" are falsy
Truthy(v) == v # None /\ v # <<>>

\* the characters str.strip() removes, among those the model uses
IsSpace(c) == c \in {" ", "\n", "\t", "\r"}

RECURSIVE lstrip(_)
lstrip(s) == IF s # <<>> /\ IsSpace(Head(s)) THEN lstrip(Tail(s)) ELSE s

RECURSIVE rstrip(_)
rstrip(s) ==
    IF s # <<>> /\ IsSpace(s[Len(s)]) THEN rstrip(SubSeq(s, 1, Len(s) - 1)) ELSE s

\* str.strip()
strip(s) == rstrip(lstrip(s))

\* str.startswith(prefix)
startswith(s, prefix) == Len(prefix) <= Len(s) /\ SubSeq(s, 1, Len(prefix)) = prefix

\* str.find(sub) from position i on, 1-based; 0 when sub does not occur
RECURSIVE find(_, _, _)
find(s, sub, i) ==
    IF i + Len(sub) - 1 > Len(s) THEN 0
    ELSE IF SubSeq(s, i, i + Len(sub) - 1) = sub THEN i
    ELSE find(s, sub, i + 1)

\* sub in s
contains(s, sub) == find(s, sub, 1) # 0

\* str.split(sep, maxsplit): leftmost non-overlapping occurrences of sep,
\* at most maxsplit of them (maxsplit = -1: all)
RECURSIVE split(_, _, _)
split(s, sep, maxsplit) ==
    LET i == find(s, sep, 1) IN
    IF maxsplit = 0 \/ i = 0 THEN <<s>>
    ELSE <<SubSeq(s, 1, i - 1)>> \o split(SubSeq(s, i + Len(sep), Len(s)), sep, maxsplit - 1)

\* sep.join(items)
RECURSIVE join(_, _)
join(items, sep) ==
    IF items = <<>> THEN <<>>
    ELSE IF Len(items) = 1 THEN items[1]
    ELSE items[1] \o sep \o join(Tail(items), sep)

\* str(n) for a natural number
RECURSIVE str(_)
str(n) ==
    LET digit(d) == <<"0", "1", "2", "3", "4", "5", "6", "7", "8", "9">>[d + 1] IN
    IF n < 10 THEN <<digit(n)>> ELSE str(n \div 10) \o <<digit(n % 10)>>

\* a print that writes nothing
print_nothing(out, s) == out

\* print(s, file=out): one more line on the stream
print_line(out, s) == Append(out, s)

-----------------------------------------------------------------------------
(* get_commits: the log format.                                            *)

\* the separator written after every commit
Sentinel == <<"|", "|", "|">>

\* one commit in --pretty=format:%h|%s|%b|||
format_commit(c) == c.hash \o <<"|">> \o c.subject \o <<"|">> \o c.body \o Sentinel

\* git log's output for the commits cs: format: puts a newline between commits
RECURSIVE git_log(_)
git_log(cs) ==
    IF cs = <<>> THEN <<>>
    ELSE IF Len(cs) = 1 THEN format_commit(cs[1])
    ELSE format_commit(cs[1]) \o <<"\n">> \o git_log(Tail(cs))

\* the revision range of the log command
RangeSpec(prev, cur) == IF Truthy(prev) THEN prev \o <<".", ".">> \o cur ELSE cur

-----------------------------------------------------------------------------
(* parse_commits.                                                          *)

\* a block is kept when it splits into at least two fields
has_fields(parts) == Len(parts) >= 2

\* the merge-commit test looking for the word followed by a space
is_merge_word(subject) == startswith(subject, <<"M", "e", "r", "g", "e", " ">>)

\* the merge-commit test
is_merge(subject) == startswith(subject, <<"M", "e", "r", "g", "e">>)

\* inserting at the front instead of appending
prepend_commit(cs, c) == <<c>> \o cs

\* commits.append({...})
append_commit(cs, c) == Append(cs, c)

\* the record built from the fields of one block
commit_of(parts) ==
    [hash    |-> strip(parts[1]),
     subject |-> strip(parts[2]),
     body    |-> IF Len(parts) > 2 THEN strip(parts[3]) ELSE <<>>]

\* the body of the for loop, over the blocks still to visit
RECURSIVE parse_blocks(_, _)
parse_blocks(blocks, acc) ==
    IF blocks = <<>> THEN acc
    ELSE
        LET commit_block == strip(Head(blocks))
            parts == split(commit_block, <<"|">>, 2)
        IN  IF commit_block = <<>> THEN parse_blocks(Tail(blocks), acc)
            ELSE IF ~has_fields(parts) THEN parse_blocks(Tail(blocks), acc)
            ELSE IF is_merge(commit_of(parts).subject) THEN parse_blocks(Tail(blocks), acc)
            ELSE parse_blocks(Tail(blocks), append_commit(acc, commit_of(parts)))

parse_commits(raw) == parse_blocks(split(raw, Sentinel, -1), <<>>)

-----------------------------------------------------------------------------
(* generate_release_notes_with_ai and the fallback formatter.              *)

\* the text of one commit in the prompt
commit_text(c) ==
    <<"*", "*">> \o c.subject \o <<"*", "*", " ", "(">> \o c.hash \o <<")">>
        \o (IF c.body # <<>> THEN <<"\n">> \o c.body ELSE <<>>)

RECURSIVE commits_context(_)
commits_context(cs) ==
    IF cs = <<>> THEN <<>> ELSE <<commit_text(Head(cs))>> \o commits_context(Tail(cs))

\* the part of the prompt that depends on the commits
commits_text(cs) == join(commits_context(cs), <<"\n", "\n">>)

\* the request of requests.post: its headers and the parts of the JSON body
\* that depend on the run
post_request(cs, repository, key, m) ==
    [authorization |-> <<"B", "e", "a", "r", "e", "r", " ">> \o key,
     referer       |-> <<"h", "t", "t", "p", "s", ":", "/", "/", "g", "i", "t", "h", "u", "b",
                         ".", "c", "o", "m", "/">> \o repository,
     model         |-> m,
     commits_text  |-> commits_text(cs)]

\* the footer with the two tags in the wrong order
ai_footer_swapped(repository, prev, cur) ==
    <<"\n", "\n", "-", "-", "-", "\n", "\n", "*", "*", "F", "u", "l", "l", " ", "C", "h", "a",
      "n", "g", "e", "l", "o", "g", "*", "*", ":", " ", "h", "t", "t", "p", "s", ":", "/", "/",
        "g", "i", "t", "h", "u", "b", ".", "c", "o", "m", "/">> \o repository
        \o <<"/", "c", "o", "m", "p", "a", "r", "e", "/">> \o cur \o <<".", ".", ".">> \o prev

\* the footer the generator appends
ai_footer(repository, prev, cur) ==
    <<"\n", "\n", "-", "-", "-", "\n", "\n", "*", "*", "F", "u", "l", "l", " ", "C", "h", "a",
      "n", "g", "e", "l", "o", "g", "*", "*", ":", " ", "h", "t", "t", "p", "s", ":", "/", "/",
        "g", "i", "t", "h", "u", "b", ".", "c", "o", "m", "/">> \o repository
        \o <<"/", "c", "o", "m", "p", "a", "r", "e", "/">> \o prev \o <<".", ".", ".">> \o cur

\* release notes of a successful call: the stripped content, then the footer
ai_notes(content, repository, prev, cur) ==
    strip(content) \o (IF Truthy(prev) THEN ai_footer(repository, prev, cur) ELSE <<>>)

\* the footer the fallback appends
fallback_footer(repository, prev, cur) ==
    <<"\n", "\n", "*", "*", "F", "u", "l", "l", " ", "C", "h", "a", "n", "g", "e", "l", "o",
      "g", "*", "*", ":", " ", "h", "t", "t", "p", "s", ":", "/", "/", "g", "i", "t", "h", "u",
        "b", ".", "c", "o", "m", "/">> \o repository
        \o <<"/", "c", "o", "m", "p", "a", "r", "e", "/">> \o prev \o <<".", ".", ".">> \o cur

\* the bullet lines of the fallback, one per commit
RECURSIVE fallback_bullets(_)
fallback_bullets(cs) ==
    IF cs = <<>> THEN <<>>
    ELSE <<"-", " ">> \o Head(cs).subject \o <<"\n">> \o fallback_bullets(Tail(cs))

\* release notes of the fallback
fallback_notes(cs, repository, prev, cur) ==
    <<"#", "#", " ", "C", "h", "a", "n", "g", "e", "s", "\n", "\n">> \o fallback_bullets(cs)
        \o (IF Truthy(prev) THEN fallback_footer(repository, prev, cur) ELSE <<>>)

\* minimal notes dressed as a heading
minimal_notes_heading(cur) == <<"#", "#", " ", "R", "e", "l", "e", "a", "s", "e", " ">> \o cur

\* release notes when there is no commit
minimal_notes(cur) == <<"R", "e", "l", "e", "a", "s", "e", " ">> \o cur

-----------------------------------------------------------------------------
(* The environment of a run.                                               *)

EnvNames == {"CURRENT_TAG", "PREV_TAG", "GITHUB_REPOSITORY", "OPENROUTER_API_KEY", "AI_MODEL"}

\* a variable that is not set
Unset == None

\* os.environ.get(name, default)
environ_get(e, name, default) == IF e[name] = Unset THEN default ELSE e[name]

DefaultModel == <<"a", "n", "t", "h", "r", "o", "p", "i", "c", "/", "c", "l", "a", "u", "d",
                  "e", "-", "h", "a", "i", "k", "u", "-", "4", ".", "5">>

\* a check that only looks for None
missing_is_none(v) == v = None

\* a required value is missing when it is None or empty
missing(v) == ~Truthy(v)

\* the values each variable takes in the model
EnvChoices ==
    [CURRENT_TAG        : {Unset, <<>>, <<"v", "1", ".", "1", ".", "0">>},
     PREV_TAG           : {Unset, <<>>, <<" ">>, <<"v", "1", ".", "0", ".", "0">>},
     GITHUB_REPOSITORY  : {Unset, <<>>, <<"n", "i", "k", "l", "a", "s", "-", "h", "e", "e", "r",
                                        "/", "t", "d", "x">>},
     OPENROUTER_API_KEY : {Unset, <<>>, <<"s", "k", "-", "o", "r", "-", "1">>},
     AI_MODEL           : {Unset, <<"o", "p", "e", "n", "a", "i", "/", "g", "p", "t", "-", "4",
                                    "o">>}]

\* the commits a repository's history is made of
CommitPool ==
    { [hash |-> <<"a", "b", "c", "1", "2", "3">>, subject |-> <<"A", "d", "d", " ", "d", "a",
                                        "r", "k", " ", "m", "o", "d", "e">>,
       body |-> <<"-", " ", "N", "e", "w", " ", "t", "h", "e", "m", "e", "\n", "-", " ", "T",
                  "o", "g", "g", "l", "e", " ", "i", "n", " ", "s", "e", "t", "t", "i", "n",
        "g", "s">>],
      [hash |-> <<"d", "e", "f", "4", "5", "6">>, subject |-> <<"M", "e", "r", "g", "e", " ",
                                        "p", "u", "l", "l", " ", "r", "e", "q", "u", "e", "s",
        "t", " ", "#", "4">>, body |-> <<>>],
      [hash |-> <<"0", "a", "1", "b", "2", "c", "3">>, subject |-> <<"F", "i", "x", " ", "c",
                                        "r", "a", "s", "h">>, body |-> <<>>] }

SeqsUpTo(S, n) == UNION { [1..k -> S] : k \in 0..n }

Histories == SeqsUpTo(CommitPool, MaxCommits)

\* what choices[0].message.content holds when the call succeeds
Contents ==
    { <<"#", "#", " ", "F", "e", "a", "t", "u", "r", "e", "s", "\n", "\n", "-", " ", "D", "a",
        "r", "k", " ", "m", "o", "d", "e", "\n">>,
      <<" ", "S", "e", "e", " ", "t", "h", "e", " ", "F", "u", "l", "l", " ", "C", "h", "a",
        "n", "g", "e", "l", "o", "g">>,
      <<>> }

\* the exceptions the call raises after the request was sent
ResponseErrors == {"ConnectionError", "Timeout", "HTTPError", "JSONDecodeError", "KeyError"}

-----------------------------------------------------------------------------
(* main().                                                                 *)

\* main() moves on to step p
Goto(p) == pc' = p /\ path' = Append(path, p)

\* sys.exit(n)
sys_exit(n) == <<n>>

\* an error that is swallowed leaves status 0
swallowed_exit == <<0>>

\* the exit status of the interpreter after an uncaught exception
uncaught_exit == <<1>>

\* the exit status of a script that runs to its end
normal_exit == <<0>>

\* the values main() reads from the environment (lines 203-207)
ReadCurrentTag == environ_get(env, "CURRENT_TAG", None)
ReadPrevTag == strip(environ_get(env, "PREV_TAG", <<>>))
ReadRepo == environ_get(env, "GITHUB_REPOSITORY", None)
ReadApiKey == environ_get(env, "OPENROUTER_API_KEY", None)
ReadModel == environ_get(env, "AI_MODEL", DefaultModel)

\* the first of the three checks that fails, or <<>> when none does
ConfigError ==
    IF missing(ReadCurrentTag)
        THEN <<"E", "r", "r", "o", "r", ":", " ", "C", "U", "R", "R", "E", "N", "T", "_", "T",
               "A", "G", " ", "e", "n", "v", "i", "r", "o", "n", "m", "e", "n", "t", " ", "v",
        "a", "r", "i", "a", "b", "l", "e", " ", "i", "s", " ", "r", "e", "q", "u", "i", "r",
        "e", "d">>
    ELSE IF missing(ReadRepo)
        THEN <<"E", "r", "r", "o", "r", ":", " ", "G", "I", "T", "H", "U", "B", "_", "R", "E",
               "P", "O", "S", "I", "T", "O", "R", "Y", " ", "e", "n", "v", "i", "r", "o", "n",
        "m", "e", "n", "t", " ", "v", "a", "r", "i", "a", "b", "l", "e", " ", "i", "s", " ",
        "r", "e", "q", "u", "i", "r", "e", "d">>
    ELSE IF missing(ReadApiKey)
        THEN <<"E", "r", "r", "o", "r", ":", " ", "O", "P", "E", "N", "R", "O", "U", "T", "E",
               "R", "_", "A", "P", "I", "_", "K", "E", "Y", " ", "e", "n", "v", "i", "r", "o",
        "n", "m", "e", "n", "t", " ", "v", "a", "r", "i", "a", "b", "l", "e", " ", "i", "s",
        " ", "r", "e", "q", "u", "i", "r", "e", "d">>
    ELSE <<>>

Init ==
    /\ pc = "Validating"
    /\ path = <<"Validating">>
    /\ env \in EnvChoices
    /\ stderr \in {<<>>, <<<<"L", "o", "a", "d", "e", "d", " ", ".", "e", "n", "v", " ", "f",
                             "i", "l", "e", " ", "f", "o", "r", " ", "l", "o", "c", "a", "l",
        " ", "t", "e", "s", "t", "i", "n", "g">>>>}
    /\ current_tag = None
    /\ prev_tag = None
    /\ repo = None
    /\ api_key = None
    /\ model = None
    /\ history = <<>>
    /\ range_spec = None
    /\ raw_commits = None
    /\ commits = <<>>
    /\ git_returncode = <<>>
    /\ net_request = None
    /\ response_content = None
    /\ gen_error = "none"
    /\ release_notes = None
    /\ stdout = <<>>
    /\ exit_code = <<>>
    /\ git_calls = 0
    /\ net_calls = 0

\* lines 203-219: a required value is missing, the process exits with status 1
ExitMissingConfig ==
    /\ pc = "Validating"
    /\ ConfigError # <<>>
    /\ current_tag' = ReadCurrentTag
    /\ prev_tag' = ReadPrevTag
    /\ repo' = ReadRepo
    /\ api_key' = ReadApiKey
    /\ model' = ReadModel
    /\ stderr' = print_line(stderr, ConfigError)
    /\ exit_code' = sys_exit(1)
    /\ Goto("Exited")
    /\ UNCHANGED <<git_returncode, response_content, env, history, range_spec, raw_commits,
                   commits, net_request, gen_error, release_notes, stdout, git_calls,
                   net_calls>>

\* lines 203-228: the configuration is complete
Validate ==
    /\ pc = "Validating"
    /\ ConfigError = <<>>
    /\ current_tag' = ReadCurrentTag
    /\ prev_tag' = (IF ReadPrevTag # <<>> THEN ReadPrevTag ELSE None)
    /\ repo' = ReadRepo
    /\ api_key' = ReadApiKey
    /\ model' = ReadModel
    /\ stderr' =
         print_line(
           print_line(stderr, <<"G", "e", "n", "e", "r", "a", "t", "i", "n", "g", " ", "r", "e",
                                "l", "e", "a", "s", "e", " ", "n", "o", "t", "e", "s", " ", "f",
        "o", "r", " ">> \o ReadCurrentTag),
           IF ReadPrevTag # <<>> THEN <<"P", "r", "e", "v", "i", "o", "u", "s", " ", "t", "a",
                                        "g", ":", " ">> \o ReadPrevTag
           ELSE <<"F", "i", "r", "s", "t", " ", "r", "e", "l", "e", "a", "s", "e", " ", "(",
                  "n", "o", " ", "p", "r", "e", "v", "i", "o", "u", "s", " ", "t", "a", "g",
        ")">>)
    /\ Goto("Fetching")
    /\ UNCHANGED <<git_returncode, response_content, env, history, range_spec, raw_commits,
                   commits, net_request, gen_error, release_notes, stdout, exit_code,
                   git_calls, net_calls>>

\* lines 231, 39-52: git log succeeds and its output is returned
FetchCommits ==
    /\ pc = "Fetching"
    /\ \E h \in Histories :
         /\ history' = h
         /\ raw_commits' = git_log(h)
    /\ range_spec' = RangeSpec(prev_tag, current_tag)
    /\ git_calls' = git_calls + 1
    /\ Goto("Parsing")
    /\ git_returncode' = <<0>>
    /\ UNCHANGED <<response_content, env, current_tag, prev_tag, repo, api_key, model,
                   commits, net_request, gen_error, release_notes, stdout, stderr,
                   exit_code, net_calls>>

\* lines 231, 51: git log exits non-zero, check=True raises CalledProcessError,
\* nothing catches it
FetchFails ==
    /\ pc = "Fetching"
    /\ range_spec' = RangeSpec(prev_tag, current_tag)
    /\ git_calls' = git_calls + 1
    /\ stderr' = print_line(stderr, <<"T", "r", "a", "c", "e", "b", "a", "c", "k", " ", "(",
                                      "m", "o", "s", "t", " ", "r", "e", "c", "e", "n", "t",
        " ", "c", "a", "l", "l", " ", "l", "a", "s", "t", ")", ":">>)
    /\ exit_code' = uncaught_exit
    /\ Goto("Exited")
    /\ git_returncode' \in {<<1>>, <<128>>}
    /\ UNCHANGED <<response_content, env, current_tag, prev_tag, repo, api_key, model,
                   history, raw_commits, commits, net_request, gen_error, release_notes,
                   stdout, net_calls>>

\* lines 232-236: parse, report the count, branch on emptiness
Parse ==
    /\ pc = "Parsing"
    /\ commits' = parse_commits(raw_commits)
    /\ stderr' = print_line(stderr,
                   <<"F", "o", "u", "n", "d",
                     " ">> \o str(Len(parse_commits(raw_commits))) \o <<" ", "c", "o", "m", "m",
                                        "i", "t", "s", " ", "t", "o", " ", "a", "n", "a", "l",
        "y", "z", "e">>)
    /\ Goto(IF parse_commits(raw_commits) = <<>> THEN "Minimal" ELSE "Generating")
    /\ UNCHANGED <<git_returncode, response_content, env, current_tag, prev_tag, repo,
                   api_key, model, history, range_spec, raw_commits, net_request,
                   gen_error, release_notes, stdout, exit_code, git_calls, net_calls>>

\* lines 237-238: no commit, the one-line notes
Minimal ==
    /\ pc = "Minimal"
    /\ stderr' = print_line(stderr,
                   <<"N", "o", " ", "c", "o", "m", "m", "i", "t", "s", " ", "f", "o", "u", "n",
                     "d", ".", " ", "G", "e", "n", "e", "r", "a", "t", "i", "n", "g", " ", "m",
        "i", "n", "i", "m", "a", "l", " ", "r", "e", "l", "e", "a", "s", "e", " ", "n", "o",
        "t", "e", "s", ".">>)
    /\ release_notes' = minimal_notes(current_tag)
    /\ Goto("Emitting")
    /\ UNCHANGED <<git_returncode, response_content, env, current_tag, prev_tag, repo,
                   api_key, model, history, range_spec, raw_commits, commits, net_request,
                   gen_error, stdout, exit_code, git_calls, net_calls>>

\* trying the generator again instead of falling back
retry_generator == "Generating"

\* where the except clause of lines 250-260 continues
after_generator_error == "FallbackFormatting"

\* the two diagnostics of the except clause (lines 251-252); the text of the
\* exception is stood for by its class name
except_lines(err, e) ==
    print_line(
      print_line(err, <<"E", "r", "r", "o", "r", " ", "c", "a", "l", "l", "i", "n", "g", " ",
                        "O", "p", "e", "n", "R", "o", "u", "t", "e", "r", " ", "A", "P", "I",
        ":", " ">> \o <<e>>),
      <<"F", "a", "l", "l", "i", "n", "g", " ", "b", "a", "c", "k", " ", "t", "o", " ", "b",
        "a", "s", "i", "c", " ", "r", "e", "l", "e", "a", "s", "e", " ", "n", "o", "t", "e",
        "s">>)

\* lines 242, 113: the generator is entered and `import requests` fails
GeneratorImportFails ==
    /\ pc = "Generating"
    /\ gen_error' = "ImportError"
    /\ stderr' = except_lines(stderr, "ImportError")
    /\ Goto(after_generator_error)
    /\ UNCHANGED <<git_returncode, response_content, env, current_tag, prev_tag, repo,
                   api_key, model, history, range_spec, raw_commits, commits, net_request,
                   release_notes, stdout, exit_code, git_calls, net_calls>>

\* lines 242, 113-186: the prompt is built and the request is sent
CallGenerator ==
    /\ pc = "Generating"
    /\ net_request' = post_request(commits, repo, api_key, model)
    /\ net_calls' = net_calls + 1
    /\ Goto("AwaitingResponse")
    /\ UNCHANGED <<git_returncode, response_content, env, current_tag, prev_tag, repo,
                   api_key, model, history, range_spec, raw_commits, commits, gen_error,
                   release_notes, stdout, stderr, exit_code, git_calls>>

\* lines 186-197: a 2xx response of the expected shape
GeneratorSucceeds ==
    /\ pc = "AwaitingResponse"
    /\ \E content \in Contents :
         /\ response_content' = content
         /\ release_notes' = ai_notes(content, repo, prev_tag, current_tag)
    /\ Goto("Emitting")
    /\ UNCHANGED <<git_returncode, env, current_tag, prev_tag, repo, api_key, model,
                   history, range_spec, raw_commits, commits, net_request, gen_error,
                   stdout, stderr, exit_code, git_calls, net_calls>>

\* lines 186-191, 250-252: the call raises (no connection, timeout, non-2xx
\* status, a body that is not JSON or not of the expected shape)
GeneratorFails ==
    /\ pc = "AwaitingResponse"
    /\ \E e \in ResponseErrors :
         /\ gen_error' = e
         /\ stderr' = except_lines(stderr, e)
    /\ Goto(after_generator_error)
    /\ UNCHANGED <<git_returncode, response_content, env, current_tag, prev_tag, repo,
                   api_key, model, history, range_spec, raw_commits, commits, net_request,
                   release_notes, stdout, exit_code, git_calls, net_calls>>

\* lines 254-260: the fallback formatter
Fallback ==
    /\ pc = "FallbackFormatting"
    /\ release_notes' = fallback_notes(commits, repo, prev_tag, current_tag)
    /\ Goto("Emitting")
    /\ UNCHANGED <<git_returncode, response_content, env, current_tag, prev_tag, repo,
                   api_key, model, history, range_spec, raw_commits, commits, net_request,
                   gen_error, stdout, stderr, exit_code, git_calls, net_calls>>

\* line 263 and the end of the script
Emit ==
    /\ pc = "Emitting"
    /\ stdout' = print_line(stdout, release_notes)
    /\ exit_code' = normal_exit
    /\ Goto("Done")
    /\ UNCHANGED <<git_returncode, response_content, env, current_tag, prev_tag, repo,
                   api_key, model, history, range_spec, raw_commits, commits, net_request,
                   gen_error, release_notes, stderr, git_calls, net_calls>>

Next ==
    \/ ExitMissingConfig
    \/ Validate
    \/ FetchCommits
    \/ FetchFails
    \/ Parse
    \/ Minimal
    \/ GeneratorImportFails
    \/ CallGenerator
    \/ GeneratorSucceeds
    \/ GeneratorFails
    \/ Fallback
    \/ Emit

Spec == Init /\ [][Next]_vars

-----------------------------------------------------------------------------
(* parse_commits on arbitrary text: the blob is put together from pieces   *)
(* that hold every character the parser looks at.                          *)

Chunks == { <<"|">>, <<"|", "|", "|">>, <<" ">>, <<"\n">>, <<"M", "e", "r", "g", "e">>, <<"a">> }

RECURSIVE concat(_)
concat(pieces) == IF pieces = <<>> THEN <<>> ELSE Head(pieces) \o concat(Tail(pieces))

Blobs == { concat(p) : p \in SeqsUpTo(Chunks, MaxChunks) }

InitParse ==
    /\ pc = "Parsing"
    /\ path = <<"Parsing">>
    /\ raw_commits \in Blobs
    /\ env \in {[n \in EnvNames |-> Unset]}
    /\ stderr = <<>>
    /\ current_tag = None
    /\ prev_tag = None
    /\ repo = None
    /\ api_key = None
    /\ model = None
    /\ history = <<>>
    /\ range_spec = None
    /\ commits = <<>>
    /\ git_returncode = <<>>
    /\ net_request = None
    /\ response_content = None
    /\ gen_error = "none"
    /\ release_notes = None
    /\ stdout = <<>>
    /\ exit_code = <<>>
    /\ git_calls = 0
    /\ net_calls = 0

\* parse_commits applied to the blob
ParseBlob ==
    /\ pc = "Parsing"
    /\ commits' = parse_commits(raw_commits)
    /\ Goto("Parsed")
    /\ UNCHANGED <<git_returncode, response_content, env, current_tag, prev_tag, repo,
                   api_key, model, history, range_spec, raw_commits, net_request,
                   gen_error, release_notes, stdout, stderr, exit_code, git_calls,
                   net_calls>>

NextParse == ParseBlob

SpecParse == InitParse /\ [][NextParse]_vars

-----------------------------------------------------------------------------
(* Properties.                                                             *)

\* a required variable is missing or empty in the environment
EnvMissing(name) == env[name] \in {Unset, <<>>}

ConfigIncomplete ==
    EnvMissing("CURRENT_TAG") \/ EnvMissing("GITHUB_REPOSITORY") \/ EnvMissing("OPENROUTER_API_KEY")

\* the previous tag as the run uses it: PREV_TAG trimmed, "" when absent
GivenPrevTag == strip(IF env["PREV_TAG"] = Unset THEN <<>> ELSE env["PREV_TAG"])

endswith(s, suffix) ==
    Len(suffix) <= Len(s) /\ SubSeq(s, Len(s) - Len(suffix) + 1, Len(s)) = suffix

Range(f) == { f[i] : i \in DOMAIN f }

IsPrefixOf(p, q) == Len(p) <= Len(q) /\ SubSeq(q, 1, Len(p)) = p

\* "- <subject>\n" for every commit, in order
RECURSIVE SubjectLines(_)
SubjectLines(cs) ==
    IF cs = <<>> THEN <<>>
    ELSE <<"-", " ">> \o cs[1].subject \o <<"\n">> \o SubjectLines(Tail(cs))

\* the comparison link of the run
CompareLink ==
    <<"h", "t", "t", "p", "s", ":", "/", "/", "g", "i", "t", "h", "u", "b", ".", "c", "o", "m",
      "/">> \o env["GITHUB_REPOSITORY"] \o <<"/", "c", "o", "m", "p", "a", "r", "e",
                                        "/">> \o GivenPrevTag
        \o <<".", ".", ".">> \o env["CURRENT_TAG"]

\* the run has parsed the log
Parsed == "Parsing" \in Range(path) /\ pc # "Parsing"

\* the words of the footer
FullChangelogText == <<"F", "u", "l", "l", " ", "C", "h", "a", "n", "g", "e", "l", "o", "g">>

\* the run went through the fallback formatter
FellBack == "FallbackFormatting" \in Range(path)

(* C1: when the generator call fails on a non-empty commit sequence, stdout *)
(* is "## Changes\n\n", one "- <subject>\n" per parsed commit in order and, *)
(* when a previous tag exists, the footer of the generator path,            *)
(* "\n\n---\n\n**Full Changelog**: <link>".                                 *)
C1_FallbackOutput ==
    (pc = "Done" /\ gen_error # "none" /\ commits # <<>>) =>
        stdout = << <<"#", "#", " ", "C", "h", "a", "n", "g", "e", "s", "\n",
                      "\n">> \o SubjectLines(commits)
                    \o (IF GivenPrevTag # <<>>
                        THEN <<"\n", "\n", "-", "-", "-", "\n", "\n", "*", "*", "F", "u", "l",
                               "l", " ", "C", "h", "a", "n", "g", "e", "l", "o", "g", "*", "*",
        ":", " ">> \o CompareLink
                        ELSE <<>>) >>

(* C2, as stated: in every run that reaches output, the notes never hold    *)
(* "Full Changelog" when PREV_TAG is absent or empty, and always hold it,   *)
(* with the comparison link, when PREV_TAG is present.                      *)
C2_Original ==
    pc = "Done" =>
        IF env["PREV_TAG"] \in {Unset, <<>>}
        THEN ~contains(release_notes, FullChangelogText)
        ELSE contains(release_notes, FullChangelogText) /\ contains(release_notes, CompareLink)

\* the footer line both formatters end with
FooterLine == <<"*", "*", "F", "u", "l", "l", " ", "C", "h", "a", "n", "g", "e", "l", "o", "g",
                "*", "*", ":", " ">> \o CompareLink

\* the run appended a footer: a previous tag is given and there are commits
FooterDue == GivenPrevTag # <<>> /\ commits # <<>>

(* C2, amended: the footer is appended exactly when PREV_TAG is non-empty   *)
(* after trimming and the commit sequence is non-empty.  The notes then end *)
(* with "**Full Changelog**: <link>"; otherwise they hold "Full Changelog"  *)
(* only if the generated text, a commit subject or the current tag does.    *)
C2_FooterIffPrevTagAndCommits ==
    pc = "Done" =>
        /\ FooterDue => endswith(release_notes, FooterLine)
        /\ (~FooterDue /\ contains(release_notes, FullChangelogText)) =>
              \/ response_content # None /\ contains(response_content, FullChangelogText)
              \/ \E i \in DOMAIN commits : contains(commits[i].subject, FullChangelogText)
              \/ contains(current_tag, FullChangelogText)
        /\ (~FooterDue /\ GivenPrevTag # <<>>) => ~contains(release_notes, CompareLink)

\* a run with a previous tag whose generated notes end with the footer
C2_Witness ==
    /\ pc = "Done"
    /\ FooterDue
    /\ response_content # None
    /\ endswith(release_notes, FooterLine)

(* C3: whatever the raw blob, parse_commits returns no record whose subject *)
(* starts with "Merge".                                                     *)
C3_NoMergeSubject ==
    pc = "Parsed" =>
        \A i \in DOMAIN commits : ~startswith(commits[i].subject, <<"M", "e", "r", "g", "e">>)

\* the non-empty blocks of a blob, trimmed
BlocksOf(raw) ==
    LET blocks == split(raw, <<"|", "|", "|">>, -1)
        trimmed == [i \in DOMAIN blocks |-> strip(blocks[i])]
    IN  SelectSeq(trimmed, LAMBDA b : b # <<>>)

\* the fields of a block
FieldsOf(block) == split(block, <<"|">>, 2)

\* a block whose subject field starts with "Merge"
IsMergeBlock(block) ==
    Len(FieldsOf(block)) >= 2 /\ startswith(strip(FieldsOf(block)[2]), <<"M", "e", "r", "g",
                                        "e">>)

\* a blob in which a merge block was dropped and another block was kept
C3_Witness ==
    /\ pc = "Parsed"
    /\ \E i \in DOMAIN BlocksOf(raw_commits) : IsMergeBlock(BlocksOf(raw_commits)[i])
    /\ commits # <<>>

\* every non-empty block has at least two pipe-delimited fields
AllBlocksHaveFields ==
    \A i \in DOMAIN BlocksOf(raw_commits) : contains(BlocksOf(raw_commits)[i], <<"|">>)

\* the blocks that are not merge commits, in the order of the blob
KeptBlocks == SelectSeq(BlocksOf(raw_commits), LAMBDA b : ~IsMergeBlock(b))

(* C4: for a blob of N non-empty blocks with at least two fields each,      *)
(* parse_commits yields N minus the number of merge blocks records, one per *)
(* remaining block, in the order of the blocks.                             *)
C4_CountAndOrder ==
    (pc = "Parsed" /\ AllBlocksHaveFields) =>
        /\ Len(commits) = Len(BlocksOf(raw_commits))
                            - Cardinality({ i \in DOMAIN BlocksOf(raw_commits) :
                                              IsMergeBlock(BlocksOf(raw_commits)[i]) })
        /\ \A i \in DOMAIN commits :
              /\ i \in DOMAIN KeptBlocks
              /\ commits[i].hash = strip(FieldsOf(KeptBlocks[i])[1])
              /\ commits[i].subject = strip(FieldsOf(KeptBlocks[i])[2])

\* two blocks or more, one of them a merge commit, at least one record
C4_Witness ==
    /\ pc = "Parsed"
    /\ AllBlocksHaveFields
    /\ Len(BlocksOf(raw_commits)) >= 2
    /\ Len(KeptBlocks) < Len(BlocksOf(raw_commits))
    /\ Len(commits) >= 1

(* C5: when the parsed commit sequence is empty, stdout is exactly          *)
(* "Release <current_tag>", whatever the rest of the configuration, and     *)
(* neither the generator nor the fallback formatter runs.                   *)
C5_MinimalNotes ==
    (Parsed /\ commits = <<>>) =>
        /\ net_calls = 0
        /\ net_request = None
        /\ ~FellBack
        /\ "Generating" \notin Range(path)
        /\ stdout \in {<<>>, << <<"R", "e", "l", "e", "a", "s", "e",
                                  " ">> \o env["CURRENT_TAG"] >>}
        /\ pc = "Done" => stdout = << <<"R", "e", "l", "e", "a", "s", "e",
                                        " ">> \o env["CURRENT_TAG"] >>

\* a finished run without commits although a previous tag and a model are set
C5_Witness ==
    /\ pc = "Done"
    /\ Parsed
    /\ commits = <<>>
    /\ GivenPrevTag # <<>>
    /\ env["AI_MODEL"] # Unset
    /\ Len(stdout) = 1

(* C6: when any of CURRENT_TAG, GITHUB_REPOSITORY or the API credential is  *)
(* missing or empty, the run ends at once with a non-zero exit status,      *)
(* nothing on stdout, no git call and no network call.                      *)
C6_MissingConfigIsFatal ==
    ConfigIncomplete =>
        /\ path \in {<<"Validating">>, <<"Validating", "Exited">>}
        /\ pc = "Exited" => (Len(exit_code) = 1 /\ exit_code[1] # 0)
        /\ pc = "Validating" => exit_code = <<>>
        /\ stdout = <<>>
        /\ git_calls = 0
        /\ net_calls = 0

\* a run that exited because only the credential is empty
C6_Witness ==
    /\ pc = "Exited"
    /\ ~EnvMissing("CURRENT_TAG")
    /\ ~EnvMissing("GITHUB_REPOSITORY")
    /\ env["OPENROUTER_API_KEY"] = <<>>
    /\ exit_code = <<1>>

\* the ways through main() the state machine of the specification allows
StateMachinePaths ==
    { <<"Validating", "Exited">>,
      <<"Validating", "Fetching", "Exited">>,
      <<"Validating", "Fetching", "Parsing", "Minimal", "Emitting", "Done">>,
      <<"Validating", "Fetching", "Parsing", "Generating", "AwaitingResponse", "Emitting",
        "Done">>,
      <<"Validating", "Fetching", "Parsing", "Generating", "AwaitingResponse",
        "FallbackFormatting", "Emitting", "Done">>,
      <<"Validating", "Fetching", "Parsing", "Generating", "FallbackFormatting", "Emitting",
        "Done">> }

\* no loop, no retry, git at most once and before the network call, the
\* network call at most once
LinearRun ==
    /\ \E p \in StateMachinePaths : IsPrefixOf(path, p)
    /\ git_calls <= 1
    /\ net_calls <= 1
    /\ net_calls = 1 => git_calls = 1
    /\ git_calls = 1 <=> "Fetching" \in Range(path) /\ pc # "Fetching"
    /\ net_calls = 1 <=> "AwaitingResponse" \in Range(path)

(* C7, as stated: the run follows the state machine without loops or        *)
(* retries, and the fallback formatter runs only after the single network   *)
(* attempt has failed.                                                      *)
C7_Original ==
    /\ LinearRun
    /\ FellBack => (net_calls = 1 /\ gen_error \in ResponseErrors)

(* C7, amended: the run follows the state machine without loops or retries, *)
(* and the fallback formatter runs only after the single generator call has *)
(* failed: after the one network attempt failed, or with no network attempt *)
(* at all when the generator fails before sending it (its import of the     *)
(* HTTP library).                                                           *)
C7_TryOnceThenFallback ==
    /\ LinearRun
    /\ FellBack =>
          \/ net_calls = 1 /\ gen_error \in ResponseErrors
          \/ net_calls = 0 /\ gen_error = "ImportError"
    /\ gen_error # "none" => (FellBack /\ response_content = None)

\* a finished run that fell back after its one network attempt failed
C7_Witness ==
    /\ pc = "Done"
    /\ FellBack
    /\ net_calls = 1
    /\ git_calls = 1
    /\ gen_error = "Timeout"

\* the process has exited with a non-zero status
ExitedNonZero == Len(exit_code) = 1 /\ exit_code[1] # 0

\* stdout holds the notes once when the run completes, and nothing before
OutputOnce ==
    /\ pc = "Done" => (stdout = <<release_notes>> /\ exit_code = <<0>>)
    /\ pc # "Done" => stdout = <<>>
    /\ exit_code = <<0>> => pc = "Done"

(* C8, as stated: the notes are written to stdout exactly once when the run *)
(* completes, with exit status 0, and a non-zero exit status occurs only on *)
(* the configuration validation failures.                                   *)
C8_Original ==
    /\ OutputOnce
    /\ ExitedNonZero => ConfigIncomplete

(* C8, amended: the notes are written to stdout exactly once when the run   *)
(* completes, with exit status 0, and a non-zero exit status occurs only on *)
(* the configuration validation failures or when the git log command fails. *)
C8_OutputOnceExitCodes ==
    /\ OutputOnce
    /\ ExitedNonZero => (ConfigIncomplete \/ (git_returncode # <<>> /\ git_returncode # <<0>>))
    /\ (pc \in {"Done", "Exited"}) <=> exit_code # <<>>

\* a run that completed on the fallback path with status 0
C8_Witness ==
    /\ pc = "Done"
    /\ FellBack
    /\ Len(stdout) = 1
    /\ exit_code = <<0>>

(* C9: when git log exits non-zero the run ends there: no retry, no         *)
(* fallback, no network call, nothing on stdout, non-zero exit status.      *)
C9_GitFailureIsFatal ==
    (git_returncode # <<>> /\ git_returncode # <<0>>) =>
        /\ path = <<"Validating", "Fetching", "Exited">>
        /\ git_calls = 1
        /\ net_calls = 0
        /\ stdout = <<>>
        /\ release_notes = None
        /\ ExitedNonZero

\* a run whose git log failed with status 128
C9_Witness ==
    /\ git_returncode = <<128>>
    /\ pc = "Exited"
    /\ ~ConfigIncomplete

\* a commit as the parser should return it: fields trimmed
Trimmed(c) == [hash |-> strip(c.hash), subject |-> strip(c.subject), body |-> strip(c.body)]

\* the commits of the history that are not merge commits, trimmed, in order
ExpectedCommits(h) ==
    LET t == [i \in DOMAIN h |-> Trimmed(h[i])]
    IN  SelectSeq(t, LAMBDA c : ~startswith(c.subject, <<"M", "e", "r", "g", "e">>))

(* C10: rendering commits without "|" in the log format and parsing the     *)
(* result gives back exactly the commits whose subject does not start with  *)
(* "Merge", with their hash, subject and trimmed body, in order, also after *)
(* a commit with an empty body.                                             *)
C10_RoundTrip ==
    Parsed => commits = ExpectedCommits(history)

====
